---- MODULE Spec2Model ----
(***************************************************************************)
(* The edge functions of warc-embed-netlify: archive.js, archive-wacz.js,  *)
(* archive-warc-gz.js.  Requests are independent, so one is handled at a   *)
(* time; each handler is cut into steps at its awaited network calls.      *)
(***************************************************************************)
EXTENDS Integers, Sequences, FiniteSets, TLC

\* Largest byte length of the entity the origin serves.
MaxLen == 2
\* Largest number a client writes in a Range header.
MaxOffset == 3

VARIABLES
  pc,                       \* position of the handler
  endpoint,                 \* which edge function handles the request
  request,                  \* the incoming Request
  origin,                   \* what the origin has answered so far
  fileExtension,            \* archive.js: fileExtension
  archiveUrlSupportsRange,  \* archive.js / archive-wacz.js
  archiveByteLength,        \* archive.js / archive-wacz.js
  returnHeaders,            \* the handler's returnHeaders object
  range,                    \* result of parseRangeHeader
  path,                     \* transfer branch taken
  response,                 \* the Response the handler returned
  fetchLog                  \* outbound fetch calls of this request, in order

vars == <<pc, endpoint, request, origin, fileExtension, archiveUrlSupportsRange,
          archiveByteLength, returnHeaders, range, path, response, fetchLog>>

-----------------------------------------------------------------------------
\* JavaScript values: null, a number, NaN, or a string of decimal digits.

Null == [t |-> "null", v |-> 0]
NaN == [t |-> "nan", v |-> 0]
Num(n) == [t |-> "num", v |-> n]
Str(n) == [t |-> "str", v |-> n]

\* ToNumber as applied by the operators -, >= : null is 0, "12" is 12.
ToNumber(x) ==
  CASE x.t = "null" -> Num(0)
    [] x.t = "str" -> Num(x.v)
    [] OTHER -> x

\* ToBoolean: null, NaN and 0 are falsy; a non-empty string is truthy.
Truthy(x) ==
  CASE x.t = "null" -> FALSE
    [] x.t = "nan" -> FALSE
    [] x.t = "num" -> x.v # 0
    [] OTHER -> TRUE

\* ToString, as a template literal or a Headers value applies it.
TemplateStr(x) ==
  CASE x.t = "null" -> "null"
    [] x.t = "nan" -> "NaN"
    [] OTHER -> ToString(x.v)

isNaN(x) == ToNumber(x).t = "nan"

\* x - n for a number n.
Minus(x, n) == IF isNaN(x) THEN NaN ELSE Num(ToNumber(x).v - n)

\* x >= y ; any comparison with NaN is false.
Geq(x, y) == ~isNaN(x) /\ ~isNaN(y) /\ ToNumber(x).v >= ToNumber(y).v

-----------------------------------------------------------------------------
\* Header strings that the code takes apart are sequences of tokens.

TBytes == [k |-> "bytes=", n |-> 0]
TDash == [k |-> "-", n |-> 0]
TJunk == [k |-> "x", n |-> 0]
TComma == [k |-> ",", n |-> 0]
TNum(n) == [k |-> "num", n |-> n]

\* String.prototype.replace(tok, ""): drops the first occurrence only.
RECURSIVE Replace(_, _)
Replace(s, tok) ==
  IF s = <<>> THEN <<>>
  ELSE IF Head(s) = tok THEN Tail(s)
  ELSE <<Head(s)>> \o Replace(Tail(s), tok)

\* String.prototype.split(sep): always at least one (possibly empty) piece.
RECURSIVE Split(_, _)
Split(s, sep) ==
  IF s = <<>> THEN << <<>> >>
  ELSE IF Head(s) = sep THEN << <<>> >> \o Split(Tail(s), sep)
  ELSE LET rest == Split(Tail(s), sep)
       IN  << <<Head(s)>> \o Head(rest) >> \o Tail(rest)

\* parseInt of a string: its leading digits, NaN when there are none.
parseInt(s) ==
  IF s # <<>> /\ Head(s).k = "num" THEN Num(Head(s).n) ELSE NaN

\* request.headers.get("range") is null or a string.
NoRange == [present |-> FALSE, toks |-> <<>>]
RangeOf(toks) == [present |-> TRUE, toks |-> toks]

\* parseRangeHeader(range, fullContentLength): range.replace throws on null,
\* and the catch supplies [0, fullContentLength - 1]; parseInt of a number is
\* that number; coord[1] of a one-piece split is undefined, parseInt NaN.
parseRangeHeader(rangeHdr, fullContentLength) ==
  LET coord0 ==
        IF ~rangeHdr.present
        THEN <<Num(0), Minus(fullContentLength, 1)>>
        ELSE LET coord == Split(Replace(rangeHdr.toks, TBytes), TDash)
             IN  <<parseInt(coord[1]),
                   IF Len(coord) >= 2 THEN parseInt(coord[2]) ELSE NaN>>
  IN  IF isNaN(coord0[2]) \/ Geq(coord0[2], fullContentLength)
      THEN <<coord0[1], Minus(fullContentLength, 1)>>
      ELSE coord0

-----------------------------------------------------------------------------
\* Bodies.  An ArrayBuffer is a sequence of bytes; data may be null.

NullData == [null |-> TRUE, bytes |-> <<>>]
Data(b) == [null |-> FALSE, bytes |-> b]

\* The entity of length len the origin serves: byte at offset k is 100 + k.
Entity(len) == [i \in 1..len |-> 99 + i]

\* ToIntegerOrInfinity then the relative-index rule of ArrayBuffer.slice.
RelIndex(x, len) ==
  LET n == IF isNaN(x) THEN 0 ELSE ToNumber(x).v
  IN  IF n < 0 THEN (IF len + n < 0 THEN 0 ELSE len + n)
      ELSE IF n > len THEN len ELSE n

\* ArrayBuffer.prototype.slice(begin, end), end exclusive.
Slice(bytes, begin, end) ==
  LET first == RelIndex(begin, Len(bytes))
      final == RelIndex(end, Len(bytes))
  IN  IF final <= first THEN <<>> ELSE SubSeq(bytes, first + 1, final)

SliceDataMutExclusive(data, rng) == Data(Slice(data.bytes, rng[1], rng[2]))

\* data.slice(range[0], range[1] + 1)
SliceData(data, rng) == Data(Slice(data.bytes, rng[1], Minus(rng[2], -1)))

-----------------------------------------------------------------------------
\* Header objects are sets of <<name, value>> pairs with unique names.

HSet(h, name, value) == {p \in h : p[1] # name} \cup {<<name, value>>}
HHas(h, name) == \E p \in h : p[1] = name
HGet(h, name) == (CHOOSE p \in h : p[1] = name)[2]

\* new Response(body, init): reads init.status and init.headers; any other
\* property of init, such as returnHeaders, is ignored.
NewResponse(body, init) ==
  [status |-> init.status,
   headers |-> IF "headers" \in DOMAIN init THEN init.headers ELSE {},
   body |-> body]

NoResponse == [status |-> 0, headers |-> {}, body |-> NullData]

-----------------------------------------------------------------------------
\* URLs.  A raw archive-url is null (parameter missing), a string that is no
\* absolute URL (scheme ""), or scheme://host/pathname with the pathname a
\* sequence of pieces.

NoUrl == [scheme |-> "null", host |-> "", pathname |-> <<>>]
RelativeUrl == [scheme |-> "", host |-> "", pathname |-> <<"/a", ".wacz">>]

Schemes == {"http", "https", "ftp"}
Hosts == {"allowed.example", "blocked.example"}
Pathnames == { <<"/a", ".wacz">>, <<"/a", ".warc", ".gz">>, <<"/a", ".gz">>,
               <<"/a", ".wacz", ".zip">>, <<"/a">> }

Urls == {NoUrl, RelativeUrl}
        \cup [scheme : Schemes, host : Hosts, pathname : Pathnames]

\* The imported allowlist of origin hosts.
allowlist == {"allowed.example"}

\* new URL(u): throws (ok = FALSE) unless u is an absolute URL.
ParseURL(u) ==
  IF u.scheme \in {"null", ""}
  THEN [ok |-> FALSE, protocol |-> "", host |-> "", pathname |-> <<>>]
  ELSE [ok |-> TRUE, protocol |-> u.scheme \o ":", host |-> u.host,
        pathname |-> u.pathname]

\* String.prototype.endsWith
endsWith(s, suffix) ==
  /\ Len(s) >= Len(suffix)
  /\ SubSeq(s, Len(s) - Len(suffix) + 1, Len(s)) = suffix

SuffixWacz == <<".wacz">>
SuffixWarcGz == <<".warc", ".gz">>

MethodAllowedMutPost(method) == method \in {"GET", "HEAD", "POST"}

\* ["GET", "HEAD"].includes(request.method)
MethodAllowed(method) == method \in {"GET", "HEAD"}

\* archive.js: the extension the two endsWith tests leave in fileExtension.
FileExtensionOf(pathname) ==
  IF endsWith(pathname, SuffixWarcGz) THEN ".warc.gz"
  ELSE IF endsWith(pathname, SuffixWacz) THEN ".wacz"
  ELSE ""

ArchiveValidateMutNoProtocol(u) ==
  LET parsed == ParseURL(u)
  IN  /\ parsed.ok
      /\ FileExtensionOf(parsed.pathname) # ""
      /\ parsed.host \in allowlist

\* archive.js: the try block validating archive-url; FALSE when it throws.
ArchiveValidate(u) ==
  LET parsed == ParseURL(u)
  IN  /\ parsed.ok
      /\ FileExtensionOf(parsed.pathname) # ""
      /\ parsed.protocol \in {"http:", "https:"}
      /\ parsed.host \in allowlist

\* archive-wacz.js: the try block validating archive-url.
WaczValidate(u) ==
  LET parsed == ParseURL(u)
  IN  /\ parsed.ok
      /\ endsWith(parsed.pathname, SuffixWacz)
      /\ parsed.protocol \in {"http:", "https:"}
      /\ parsed.host \in allowlist

WarcGzValidateMutNoHost(u) ==
  LET parsed == ParseURL(u)
  IN  /\ parsed.ok
      /\ endsWith(parsed.pathname, SuffixWarcGz)
      /\ parsed.protocol \in {"http:", "https:"}

\* archive-warc-gz.js: the try block validating archive-url.
WarcGzValidate(u) ==
  LET parsed == ParseURL(u)
  IN  /\ parsed.ok
      /\ endsWith(parsed.pathname, SuffixWarcGz)
      /\ parsed.protocol \in {"http:", "https:"}
      /\ parsed.host \in allowlist

-----------------------------------------------------------------------------
\* Requests.

Endpoints == {"archive", "archive-wacz", "archive-warc-gz"}
Methods == {"GET", "HEAD", "POST"}

Offsets == 0..MaxOffset

RangeHeaders ==
  {NoRange, RangeOf(<<>>), RangeOf(<<TJunk>>),
   RangeOf(<<TBytes, TJunk, TDash, TJunk>>),
   RangeOf(<<TBytes, TNum(0), TDash, TNum(0), TComma, TNum(1), TDash, TNum(1)>>),
   RangeOf(<<TNum(0), TDash, TNum(1)>>)}
  \cup {RangeOf(<<TBytes, TNum(a), TDash, TNum(b)>>) : a \in Offsets, b \in Offsets}
  \cup {RangeOf(<<TBytes, TNum(a), TDash>>) : a \in Offsets}
  \cup {RangeOf(<<TBytes, TDash, TNum(b)>>) : b \in Offsets}

Requests == [method : Methods, archiveUrl : Urls, range : RangeHeaders]

-----------------------------------------------------------------------------
\* The origin.  length is the byte length of the entity it serves at the
\* archive URL (-1 until the first fetch reaches it); probe and transfer
\* record how it answered the two fetches.

NoOutcome == [called |-> FALSE, net |-> FALSE, status |-> 0,
              acceptRanges |-> FALSE, contentLength |-> FALSE, etag |-> FALSE]

\* A fetch that rejects: no response at all.
NetworkFailure == [NoOutcome EXCEPT !.called = TRUE]

Outcomes ==
  {NetworkFailure}
  \cup [called : {TRUE}, net : {TRUE}, status : {200, 404},
        acceptRanges : BOOLEAN, contentLength : BOOLEAN, etag : BOOLEAN]

NoOrigin == [length |-> -1, probe |-> NoOutcome, transfer |-> NoOutcome]

\* The origin honours a forwarded single range bytes=a-b.
Honours(rangeHdr, len) ==
  /\ rangeHdr.present
  /\ Len(rangeHdr.toks) = 4
  /\ rangeHdr.toks[1] = TBytes
  /\ rangeHdr.toks[2].k = "num"
  /\ rangeHdr.toks[3] = TDash
  /\ rangeHdr.toks[4].k = "num"
  /\ rangeHdr.toks[2].n <= rangeHdr.toks[4].n
  /\ rangeHdr.toks[2].n < len

\* The Response fetch resolves with, for an outcome that is no network
\* failure.  A HEAD response has the headers of the GET one and no body.
fetch(method, rangeHdr, out, len) ==
  LET a == rangeHdr.toks[2].n
      b == IF rangeHdr.toks[4].n >= len THEN len - 1 ELSE rangeHdr.toks[4].n
      partial == out.status = 200 /\ Honours(rangeHdr, len)
      bytes == IF partial THEN SubSeq(Entity(len), a + 1, b + 1) ELSE Entity(len)
      h0 == IF out.contentLength
            THEN {<<"content-length", ToString(Len(bytes))>>} ELSE {}
      h1 == IF out.acceptRanges THEN HSet(h0, "accept-ranges", "bytes") ELSE h0
      h2 == IF out.etag THEN HSet(h1, "etag", "W/1") ELSE h1
      h3 == IF partial
            THEN HSet(h2, "content-range",
                      "bytes " \o ToString(a) \o "-" \o ToString(b) \o "/"
                      \o ToString(len))
            ELSE h2
  IN  [status |-> IF partial THEN 206 ELSE out.status,
       headers |-> h3,
       bytes |-> IF method = "HEAD" THEN <<>> ELSE bytes]

\* response.headers.get(name): null when the header is absent.
HeaderOrNull(h, name) == IF HHas(h, name) THEN HGet(h, name) ELSE "null"

FetchCall(kind, method, rangeHdr) ==
  [kind |-> kind, url |-> request.archiveUrl, method |-> method, range |-> rangeHdr]

-----------------------------------------------------------------------------
\* The handlers.

Init ==
  /\ pc = "idle"
  /\ endpoint = "archive"
  /\ request = [method |-> "GET", archiveUrl |-> NoUrl, range |-> NoRange]
  /\ origin = NoOrigin
  /\ fileExtension = ""
  /\ archiveUrlSupportsRange = FALSE
  /\ archiveByteLength = Null
  /\ returnHeaders = {}
  /\ range = <<Null, Null>>
  /\ path = "none"
  /\ response = NoResponse
  /\ fetchLog = <<>>

\* The platform invokes an edge function with a Request.
Receive ==
  /\ pc = "idle"
  /\ \E ep \in Endpoints, req \in Requests :
       /\ endpoint' = ep
       /\ request' = req
  /\ pc' = "started"
  /\ UNCHANGED <<origin, fileExtension, archiveUrlSupportsRange, archiveByteLength,
                 returnHeaders, range, path, response, fetchLog>>

\* The invocation is over; nothing of it outlives the request, and the next
\* invocation starts from the handler's declared initial values.
Dispose ==
  /\ pc \in {"done", "crashed"}
  /\ pc' = "idle"
  /\ endpoint' = "archive"
  /\ request' = [method |-> "GET", archiveUrl |-> NoUrl, range |-> NoRange]
  /\ origin' = NoOrigin
  /\ fileExtension' = ""
  /\ archiveUrlSupportsRange' = FALSE
  /\ archiveByteLength' = Null
  /\ returnHeaders' = {}
  /\ range' = <<Null, Null>>
  /\ path' = "none"
  /\ response' = NoResponse
  /\ fetchLog' = <<>>

\* return new Response(...): the handler ends with that response.
Return(resp) ==
  /\ pc' = "done"
  /\ response' = resp

\* An exception nothing catches: the handler's promise rejects and it
\* returns no Response.
Throw ==
  /\ pc' = "crashed"
  /\ response' = NoResponse

\* archive.js, from entry to the first await.
Archive_Start ==
  /\ pc = "started" /\ endpoint = "archive"
  /\ LET rh0 == {<<"access-control-allow-origin", "*">>, <<"accept-ranges", "bytes">>}
         ext == FileExtensionOf(ParseURL(request.archiveUrl).pathname)
         rh1 == IF ext = ".wacz"
                THEN HSet(HSet(rh0, "content-type", "binary/octet-stream"),
                          "content-disposition", "attachment; filename=\"archive.wacz\"")
                ELSE HSet(HSet(rh0, "content-type", "application/x-gzip"),
                          "content-disposition", "attachment; filename=\"archive.warc.gz\"")
     IN  IF ~MethodAllowed(request.method)
         THEN /\ Return(NewResponse(NullData, [status |-> 405, returnHeaders |-> rh0]))
              /\ returnHeaders' = rh0
              /\ UNCHANGED fileExtension
         ELSE IF ~ArchiveValidate(request.archiveUrl)
         THEN /\ Return(NewResponse(NullData, [status |-> 400, returnHeaders |-> rh0]))
              /\ returnHeaders' = rh0
              /\ fileExtension' = ext
         ELSE /\ pc' = "probe"
              /\ returnHeaders' = rh1
              /\ fileExtension' = ext
              /\ UNCHANGED response
  /\ UNCHANGED <<endpoint, request, origin, archiveUrlSupportsRange,
                 archiveByteLength, range, path, fetchLog>>

\* archive-wacz.js, from entry to the first await.
ArchiveWacz_Start ==
  /\ pc = "started" /\ endpoint = "archive-wacz"
  /\ LET rh0 == {<<"access-control-allow-origin", "*">>, <<"accept-ranges", "bytes">>,
                 <<"content-type", "binary/octet-stream">>}
     IN  /\ returnHeaders' = rh0
         /\ IF ~MethodAllowed(request.method)
            THEN Return(NewResponse(NullData, [status |-> 405, returnHeaders |-> rh0]))
            ELSE IF ~WaczValidate(request.archiveUrl)
            THEN Return(NewResponse(NullData, [status |-> 400, returnHeaders |-> rh0]))
            ELSE pc' = "probe" /\ UNCHANGED response
  /\ UNCHANGED <<endpoint, request, origin, fileExtension, archiveUrlSupportsRange,
                 archiveByteLength, range, path, fetchLog>>

\* archive-warc-gz.js, from entry to the first await.
ArchiveWarcGz_Start ==
  /\ pc = "started" /\ endpoint = "archive-warc-gz"
  /\ LET rh0 == {<<"access-control-allow-origin", "*">>}
     IN  /\ returnHeaders' = rh0
         /\ IF ~MethodAllowed(request.method)
            THEN Return(NewResponse(NullData, [status |-> 405, returnHeaders |-> rh0]))
            ELSE IF ~WarcGzValidate(request.archiveUrl)
            THEN Return(NewResponse(NullData, [status |-> 400, returnHeaders |-> rh0]))
            ELSE pc' = "fetch" /\ UNCHANGED response
  /\ UNCHANGED <<endpoint, request, origin, fileExtension, archiveUrlSupportsRange,
                 archiveByteLength, range, path, fetchLog>>

\* The HEAD probe of archive.js and archive-wacz.js: only a rejected fetch
\* reaches the catch; the response's status is never read.
Probe ==
  /\ pc = "probe"
  /\ \E len \in 0..MaxLen, out \in Outcomes :
       LET resp == fetch("HEAD", NoRange, out, len)
           hasLength == HHas(resp.headers, "content-length")
       IN  /\ origin' = [origin EXCEPT !.length = len, !.probe = out]
           /\ fetchLog' = Append(fetchLog, FetchCall("probe", "HEAD", NoRange))
           /\ IF ~out.net
              THEN /\ Return(NewResponse(NullData,
                               [status |-> 404, returnHeaders |-> returnHeaders]))
                   /\ UNCHANGED <<archiveUrlSupportsRange, archiveByteLength>>
              ELSE /\ archiveUrlSupportsRange' =
                        (HHas(resp.headers, "accept-ranges") /\ hasLength)
                   /\ archiveByteLength' = IF hasLength THEN Str(len) ELSE Null
                   /\ pc' = "transfer"
                   /\ UNCHANGED response
  /\ UNCHANGED <<endpoint, request, fileExtension, returnHeaders, range, path>>

Archive_Probe == endpoint = "archive" /\ Probe

ArchiveWacz_Probe == endpoint = "archive-wacz" /\ Probe

\* How the origin may answer the transfer fetch: it declares the same
\* headers as it did to the probe.
TransferOutcomes(probe) ==
  {NetworkFailure}
  \cup {[probe EXCEPT !.status = s, !.etag = e] : s \in {200, 404}, e \in BOOLEAN}

\* The pass-through branch; disposition is set here by archive-wacz.js only.
PassThrough(disposition) ==
  /\ pc = "transfer" /\ archiveUrlSupportsRange
  /\ path' = "passthrough"
  /\ fetchLog' = Append(fetchLog,
                        FetchCall("transfer", request.method, request.range))
  /\ \E out \in TransferOutcomes(origin.probe) :
       /\ origin' = [origin EXCEPT !.transfer = out]
       /\ IF ~out.net
          THEN Throw /\ UNCHANGED returnHeaders
          ELSE LET resp == fetch(request.method, request.range, out, origin.length)
                   data == IF request.method = "HEAD" THEN NullData
                           ELSE Data(resp.bytes)
                   h0 == IF disposition = "" THEN returnHeaders
                         ELSE HSet(returnHeaders, "content-disposition", disposition)
                   h1 == HSet(h0, "content-length",
                              HeaderOrNull(resp.headers, "content-length"))
                   h2 == IF HHas(resp.headers, "etag")
                         THEN HSet(h1, "etag", HGet(resp.headers, "etag")) ELSE h1
                   h3 == IF HHas(resp.headers, "content-range")
                         THEN HSet(h2, "content-range",
                                   HGet(resp.headers, "content-range"))
                         ELSE h2
               IN  /\ returnHeaders' = h3
                   /\ Return(NewResponse(data,
                               [status |-> resp.status, headers |-> h3]))
  /\ UNCHANGED <<endpoint, request, fileExtension, archiveUrlSupportsRange,
                 archiveByteLength, range>>

Archive_PassThrough == endpoint = "archive" /\ PassThrough("")

ArchiveWacz_PassThrough ==
  endpoint = "archive-wacz" /\ PassThrough("attachment; filename=\"archive.wacz\"")

\* The polyfill branch.  guarded tells the two files apart: archive.js
\* writes `data ? data.byteLength : 0`, archive-wacz.js `data.byteLength`,
\* a TypeError when data is null.
Polyfill(disposition, guarded) ==
  /\ pc = "transfer" /\ ~archiveUrlSupportsRange
  /\ path' = "polyfill"
  /\ LET method == IF Truthy(archiveByteLength) THEN request.method ELSE "GET"
     IN  /\ fetchLog' = Append(fetchLog, FetchCall("transfer", method, NoRange))
         /\ \E out \in TransferOutcomes(origin.probe) :
              /\ origin' = [origin EXCEPT !.transfer = out]
              /\ IF ~out.net
                 THEN Throw /\ UNCHANGED <<returnHeaders, archiveByteLength, range>>
                 ELSE LET resp == fetch(method, NoRange, out, origin.length)
                          data0 == IF request.method = "HEAD" THEN NullData
                                   ELSE Data(resp.bytes)
                          abl == IF archiveByteLength = Null /\ ~data0.null
                                 THEN Num(Len(data0.bytes))
                                 ELSE archiveByteLength
                          rng == parseRangeHeader(request.range, abl)
                          data == IF ~data0.null THEN SliceData(data0, rng)
                                  ELSE data0
                          h0 == IF disposition = "" THEN returnHeaders
                                ELSE HSet(returnHeaders, "content-disposition",
                                          disposition)
                          h1 == HSet(h0, "content-range",
                                     "bytes " \o TemplateStr(rng[1]) \o "-"
                                     \o TemplateStr(rng[2]) \o "/"
                                     \o TemplateStr(abl))
                          h2 == HSet(h1, "content-length",
                                     IF data.null THEN "0"
                                     ELSE ToString(Len(data.bytes)))
                          h3 == IF HHas(resp.headers, "etag")
                                THEN HSet(h2, "etag", HGet(resp.headers, "etag"))
                                ELSE h2
                      IN  /\ archiveByteLength' = abl
                          /\ range' = rng
                          /\ IF data.null /\ ~guarded
                             THEN Throw /\ returnHeaders' = h1
                             ELSE /\ returnHeaders' = h3
                                  /\ Return(NewResponse(data,
                                              [status |-> 206, headers |-> h3]))
  /\ UNCHANGED <<endpoint, request, fileExtension, archiveUrlSupportsRange>>

Archive_Polyfill == endpoint = "archive" /\ Polyfill("", TRUE)

ArchiveWacz_Polyfill ==
  endpoint = "archive-wacz"
  /\ Polyfill("attachment; filename=\"archive.wacz\"", FALSE)

\* archive-warc-gz.js: fetch and serve, all inside one try.
ArchiveWarcGz_Fetch ==
  /\ pc = "fetch" /\ endpoint = "archive-warc-gz"
  /\ fetchLog' = Append(fetchLog, FetchCall("transfer", "GET", NoRange))
  /\ \E len \in 0..MaxLen, out \in TransferOutcomes(NetworkFailure) :
       /\ origin' = [origin EXCEPT !.length = len, !.transfer = out]
       /\ IF ~out.net
          THEN /\ Return(NewResponse(NullData,
                           [status |-> 404, returnHeaders |-> returnHeaders]))
               /\ UNCHANGED returnHeaders
          ELSE LET resp == fetch("GET", NoRange, out, len)
                   h0 == HSet(returnHeaders, "content-type", "application/x-gzip")
                   h1 == HSet(h0, "content-disposition",
                              "attachment; filename=\"archive.warc.gz\"")
                   h2 == IF HHas(resp.headers, "etag")
                         THEN HSet(h1, "etag", HGet(resp.headers, "etag")) ELSE h1
               IN  /\ returnHeaders' = h2
                   /\ Return(NewResponse(Data(resp.bytes),
                               [status |-> 200, returnHeaders |-> h2]))
  /\ UNCHANGED <<endpoint, request, fileExtension, archiveUrlSupportsRange,
                 archiveByteLength, range, path>>

Next ==
  \/ Receive
  \/ Dispose
  \/ Archive_Start
  \/ ArchiveWacz_Start
  \/ ArchiveWarcGz_Start
  \/ Archive_Probe
  \/ ArchiveWacz_Probe
  \/ Archive_PassThrough
  \/ ArchiveWacz_PassThrough
  \/ Archive_Polyfill
  \/ ArchiveWacz_Polyfill
  \/ ArchiveWarcGz_Fetch

Spec == Init /\ [][Next]_vars

TypeOK ==
  /\ pc \in {"idle", "started", "probe", "transfer", "fetch", "done", "crashed"}
  /\ endpoint \in Endpoints
  /\ request \in Requests
  /\ path \in {"none", "passthrough", "polyfill"}
  /\ Len(fetchLog) <= 2

-----------------------------------------------------------------------------
\* Vocabulary of the properties.

\* The handler has left its entry step.
PastStart == pc \in {"probe", "transfer", "fetch", "done", "crashed"}

\* The handler has ended, with a Response or with an uncaught exception.
Ended == pc \in {"done", "crashed"}

\* archive-url parses as an absolute URL.
UrlParses == request.archiveUrl.scheme \in Schemes

\* The pathname suffixes an endpoint accepts.
AcceptedSuffixes(ep) ==
  CASE ep = "archive" -> {SuffixWacz, SuffixWarcGz}
    [] ep = "archive-wacz" -> {SuffixWacz}
    [] OTHER -> {SuffixWarcGz}

\* The client sent exactly Range: bytes=a-b.
RangeIs(a, b) == request.range = RangeOf(<<TBytes, TNum(a), TDash, TNum(b)>>)

\* The Range header is there and is not of the form bytes=<int>-<int>.
Malformed ==
  /\ request.range.present
  /\ \A a \in Offsets, b \in Offsets : ~RangeIs(a, b)

\* The polyfill branch ran and its transfer fetch resolved.
PolyfillServed == Ended /\ path = "polyfill" /\ origin.transfer.net

\* The handler knows the total length and b is below it.
BelowTotalLength(b) ==
  archiveByteLength.t # "null" /\ b < ToNumber(archiveByteLength).v

ContentRangeText(a, b, total) ==
  "bytes " \o ToString(a) \o "-" \o ToString(b) \o "/" \o ToString(total)

TransferCalls == {i \in 1..Len(fetchLog) : fetchLog[i].kind = "transfer"}

-----------------------------------------------------------------------------
\* C1 (as amended): a GET or HEAD request whose archive-url parses and names
\* a host outside the allowlist ends with status 400, and no fetch was made,
\* so the answer does not depend on the origin.
C1_DisallowedHostIs400 ==
  (PastStart /\ request.method \in {"GET", "HEAD"} /\ UrlParses
     /\ request.archiveUrl.host \notin allowlist)
  => (pc = "done" /\ response.status = 400 /\ fetchLog = <<>>)

\* C1 as stated: a host outside the allowlist yields 400 whatever the method.
C1_DisallowedHostIs400AnyMethod ==
  (PastStart /\ UrlParses /\ request.archiveUrl.host \notin allowlist)
  => (pc = "done" /\ response.status = 400)

\* A HEAD request to the warc.gz endpoint whose only fault is its host.
C1_Witness ==
  /\ pc = "done" /\ endpoint = "archive-warc-gz" /\ request.method = "HEAD"
  /\ request.archiveUrl = [scheme |-> "https", host |-> "blocked.example",
                           pathname |-> <<"/a", ".warc", ".gz">>]
  /\ response.status = 400

\* C2: a request whose method is neither GET nor HEAD ends with status 405,
\* and no outbound fetch was made for it before that response.
C2_OtherMethodIs405BeforeAnyFetch ==
  (PastStart /\ request.method \notin {"GET", "HEAD"})
  => (pc = "done" /\ response.status = 405 /\ fetchLog = <<>>)

\* A POST that names a valid archive gets 405.
C2_Witness ==
  /\ pc = "done" /\ request.method = "POST" /\ response.status = 405
  /\ request.archiveUrl = [scheme |-> "https", host |-> "allowed.example",
                           pathname |-> <<"/a", ".wacz">>]
  /\ endpoint = "archive-wacz"

\* C3 (as amended): on the polyfill path, a GET request with Range: bytes=A-B,
\* A <= B < totalLength, gets exactly the B - A + 1 bytes at offsets A..B and
\* content-range: bytes A-B/totalLength.
C3_PolyfillServesRequestedBytes ==
  \A a \in Offsets, b \in Offsets :
    (PolyfillServed /\ request.method = "GET" /\ RangeIs(a, b)
       /\ a <= b /\ BelowTotalLength(b))
    => /\ pc = "done"
       /\ ~response.body.null
       /\ Len(response.body.bytes) = b - a + 1
       /\ \A k \in a..b : response.body.bytes[k - a + 1] = Entity(origin.length)[k + 1]
       /\ HHas(response.headers, "content-range")
       /\ HGet(response.headers, "content-range")
            = ContentRangeText(a, b, origin.length)

\* C3 as stated: the same for every method and every bytes=A-B with
\* B < totalLength.
C3_PolyfillServesRequestedBytesAnyMethod ==
  \A a \in Offsets, b \in Offsets :
    (PolyfillServed /\ RangeIs(a, b) /\ BelowTotalLength(b))
    => /\ pc = "done"
       /\ ~response.body.null
       /\ Len(response.body.bytes) = b - a + 1
       /\ HHas(response.headers, "content-range")
       /\ HGet(response.headers, "content-range")
            = ContentRangeText(a, b, origin.length)

\* GET with Range: bytes=1-1 of a two-byte entity is answered with its
\* second byte.
C3_Witness ==
  /\ PolyfillServed /\ pc = "done" /\ request.method = "GET"
  /\ RangeIs(1, 1) /\ origin.length = 2
  /\ response.body = Data(<<101>>)

\* C4, for GET requests: on the polyfill path an absent or malformed Range
\* header yields status 206, the whole entity as body, and
\* content-range: bytes 0-(totalLength-1)/totalLength.
C4_NoRangeServesWholeEntity ==
  (PolyfillServed /\ request.method = "GET"
     /\ (~request.range.present \/ Malformed))
  => /\ pc = "done"
     /\ response.status = 206
     /\ response.body = Data(Entity(origin.length))
     /\ HHas(response.headers, "content-range")
     /\ HGet(response.headers, "content-range")
          = ContentRangeText(0, origin.length - 1, origin.length)

\* C5, for GET requests of a non-empty entity: the range the parser produced
\* on the polyfill path has end >= start and end < totalLength.
C5_ParsedRangeWithinEntity ==
  (PolyfillServed /\ request.method = "GET" /\ origin.length > 0)
  => /\ range[1].t = "num" /\ range[2].t = "num"
     /\ range[2].v >= range[1].v
     /\ range[2].v < origin.length

\* C6: when the probe ends in a network failure or a non-success response,
\* the request ends with status 404 and no transfer fetch is made.
C6_FailedProbeIs404 ==
  (origin.probe.called /\ (~origin.probe.net \/ origin.probe.status # 200))
  => (pc = "done" /\ response.status = 404 /\ TransferCalls = {})

\* C7: when the transfer fetch fails, the handler still returns a response,
\* with status 404 and an empty body, and the fetch was made once.
C7_FailedTransferIs404 ==
  (origin.transfer.called /\ ~origin.transfer.net)
  => /\ pc = "done"
     /\ response.status = 404
     /\ response.body = NullData
     /\ Cardinality(TransferCalls) = 1

\* C8: every response returned carries access-control-allow-origin: *.
C8_EveryResponseAllowsAnyOrigin ==
  pc = "done" => <<"access-control-allow-origin", "*">> \in response.headers

\* C9: on the polyfill path, when the probe declared no content length, the
\* transfer is a GET and totalLength is the measured size of the body, for
\* GET and HEAD requests alike, so content-range names a known total.
C9_UnknownLengthIsMeasured ==
  (PolyfillServed /\ ~origin.probe.contentLength)
  => /\ \A i \in TransferCalls : fetchLog[i].method = "GET"
     /\ archiveByteLength = Num(origin.length)
     /\ pc = "done"
     /\ HHas(response.headers, "content-range")

\* C10: every outbound fetch targets a URL that passed validation: scheme
\* http or https, host in the allowlist, pathname ending in a suffix the
\* endpoint accepts.
C10_FetchOnlyValidatedUrl ==
  \A i \in 1..Len(fetchLog) :
    LET u == fetchLog[i].url
    IN  /\ u.scheme \in {"http", "https"}
        /\ u.host \in allowlist
        /\ \E suffix \in AcceptedSuffixes(endpoint) : endsWith(u.pathname, suffix)

\* A request that made both its probe and its transfer fetch.
C10_Witness ==
  /\ pc = "done" /\ Len(fetchLog) = 2
  /\ fetchLog[1].kind = "probe" /\ fetchLog[2].kind = "transfer"

====
